---- MODULE Spec2Model ----
\* A model of Scripts/generate_lytte_from_rss.py: the feed-to-content-file
\* synchroniser.  A text is a sequence of tokens.  A token is one character
\* (LF, CR, SP, QT, a letter, a digit) or a literal chunk of the script's
\* templates that has no white space, quote or line break at its edges, so
\* that strip(), splitlines() and the regular expressions act on tokens
\* exactly as they act on the characters.
EXTENDS Integers, Sequences, FiniteSets, TLC

----------------------------------------------------------------------------
\* Characters

LF == "\n"
CR == "\r"
SP == " "
QT == "\""
BS == "\\"
DASHES == "---"
MARKER == "episodeplayer"

\* The characters str.strip() and str.rstrip() remove (those of the alphabet).
WS == {LF, CR, SP}

----------------------------------------------------------------------------
\* Sequence helpers

RECURSIVE Flatten(_)
Flatten(ss) == IF ss = <<>> THEN <<>> ELSE Head(ss) \o Flatten(Tail(ss))

\* "\n".join(parts)
RECURSIVE JoinLF(_)
JoinLF(parts) ==
    IF parts = <<>> THEN <<>>
    ELSE IF Len(parts) = 1 THEN parts[1]
    ELSE parts[1] \o <<LF>> \o JoinLF(Tail(parts))

Contains(s, tok) == \E i \in 1..Len(s) : s[i] = tok

RECURSIVE LStrip(_)
LStrip(s) == IF s # <<>> /\ Head(s) \in WS THEN LStrip(Tail(s)) ELSE s

RECURSIVE RStrip(_)
RStrip(s) ==
    IF s # <<>> /\ s[Len(s)] \in WS THEN RStrip(SubSeq(s, 1, Len(s) - 1)) ELSE s

\* str.strip()
Strip(s) == LStrip(RStrip(s))

\* str.splitlines(): breaks at LF, CR and CR LF; no empty last line.
RECURSIVE SplitLinesFrom(_, _)
SplitLinesFrom(s, cur) ==
    IF s = <<>> THEN (IF cur = <<>> THEN <<>> ELSE <<cur>>)
    ELSE IF Head(s) = CR /\ Len(s) >= 2 /\ s[2] = LF
         THEN <<cur>> \o SplitLinesFrom(Tail(Tail(s)), <<>>)
    ELSE IF Head(s) \in {LF, CR}
         THEN <<cur>> \o SplitLinesFrom(Tail(s), <<>>)
    ELSE SplitLinesFrom(Tail(s), Append(cur, Head(s)))

SplitLines(s) == SplitLinesFrom(s, <<>>)

\* Path.read_text(): text mode with universal newlines, CR LF and CR read as
\* LF.  Every CR becomes LF and the LF of a CR LF is dropped.
Newlines(b) ==
    [i \in 1..Len(b) |->
        IF b[i] = CR THEN LF
        ELSE IF b[i] = LF /\ i > 1 /\ b[i - 1] = CR THEN "" ELSE b[i]]

ReadText(b) == SelectSeq(Newlines(b), LAMBDA c : c # "")

----------------------------------------------------------------------------
\* slugify

Lower(c) ==
    CASE c = "A" -> "a"
      [] c = "B" -> "b"
      [] c = "A-ring" -> "a-ring"
      [] OTHER -> c

\* text.strip().lower()
LowerAll(t) == [i \in 1..Len(t) |-> Lower(t[i])]

\* [a-z0-9], the characters of the alphabet that slugify keeps
LowerAlnum == {"a", "b", "e", "o", "1", "2"}

ReplaceDiacritic(c) ==
    CASE c = "ae-lig" -> <<"a", "e">>
      [] c = "o-slash" -> <<"o">>
      [] c = "a-ring" -> <<"a">>
      [] OTHER -> <<c>>

\* text.replace("ae-lig","ae").replace("o-slash","o").replace("a-ring","a")
ReplaceDiacritics(t) == Flatten([i \in 1..Len(t) |-> ReplaceDiacritic(t[i])])

\* re.sub(r"[^a-z0-9]+", "-", text)
RECURSIVE DashRuns(_)
DashRuns(s) ==
    IF s = <<>> THEN <<>>
    ELSE IF Head(s) \in LowerAlnum
         THEN <<Head(s)>> \o DashRuns(Tail(s))
    ELSE IF Len(s) >= 2 /\ s[2] \notin LowerAlnum
         THEN DashRuns(Tail(s))
    ELSE <<"-">> \o DashRuns(Tail(s))

\* re.sub(r"-{2,}", "-", text)
RECURSIVE CollapseDashes(_)
CollapseDashes(s) ==
    IF s = <<>> THEN <<>>
    ELSE IF Head(s) = "-" /\ Len(s) >= 2 /\ s[2] = "-"
         THEN CollapseDashes(Tail(s))
    ELSE <<Head(s)>> \o CollapseDashes(Tail(s))

\* .strip("-")
RECURSIVE StripDashes(_)
StripDashes(s) ==
    IF s # <<>> /\ Head(s) = "-" THEN StripDashes(Tail(s))
    ELSE IF s # <<>> /\ s[Len(s)] = "-" THEN StripDashes(SubSeq(s, 1, Len(s) - 1))
    ELSE s

\* text or "episode"
OrEpisode(t) == IF t = <<>> THEN <<"episode">> ELSE t

slugify(text) ==
    OrEpisode(StripDashes(CollapseDashes(DashRuns(
        ReplaceDiacritics(LowerAll(Strip(text)))))))

----------------------------------------------------------------------------
\* Dates.  A pubDate is [fmt, day]: fmt says which parser accepts the string
\* and day is the calendar day it names.

Days == {1, 2}

IsoText == <<"2024-01-01", "2024-01-02">>
DisplayText == <<"01-01-2024", "02-01-2024">>

\* strptime RFC-822, else fromisoformat, else datetime.now(utc).date()
parse_date_rfc822(s, now) ==
    IF s.fmt = "rfc822" THEN s.day
    ELSE IF s.fmt = "iso" THEN s.day
    ELSE now

----------------------------------------------------------------------------
\* strip_html

BrTags == {"<br>", "<BR/>"}
OtherTags == {"<p>", "</p>", "<b>", "</b>"}

\* html.unescape
Unescape(s) == [i \in 1..Len(s) |-> IF s[i] = "&amp;" THEN "&" ELSE s[i]]

\* re.sub(r"<br\s*/?>", "\n", s, flags=re.I)
BrToLF(s) == [i \in 1..Len(s) |-> IF s[i] \in BrTags THEN LF ELSE s[i]]

\* What follows "</p>" at the head of s when "\s*<p>" matches there.
AfterParaOpen(rest) ==
    IF rest # <<>> /\ Head(rest) = "<p>" THEN <<TRUE, Tail(rest)>> ELSE <<FALSE, <<>>>>

\* re.sub(r"</p>\s*<p>", "\n\n", s, flags=re.I)
RECURSIVE ParaBreaks(_)
RECURSIVE ParaBreakAt(_, _)
ParaBreakAt(s, m) ==
    IF m[1] THEN <<LF, LF>> \o ParaBreaks(m[2])
    ELSE <<Head(s)>> \o ParaBreaks(Tail(s))

ParaBreaks(s) ==
    IF s = <<>> THEN <<>>
    ELSE IF Head(s) = "</p>" THEN ParaBreakAt(s, AfterParaOpen(LStrip(Tail(s))))
    ELSE <<Head(s)>> \o ParaBreaks(Tail(s))

\* re.sub(r"<[^>]+>", "", s)
DropTags(s) == SelectSeq(s, LAMBDA c : c \notin OtherTags /\ c \notin BrTags)

strip_html(s) == Strip(DropTags(ParaBreaks(BrToLF(Unescape(s)))))

----------------------------------------------------------------------------
\* YAML helpers

\* s.replace('"','\\"')
yml_escape_inline(s) ==
    Flatten([i \in 1..Len(s) |-> IF s[i] = QT THEN <<BS, QT>> ELSE <<s[i]>>])

\* "\n".join(("  " + ln).rstrip() for ln in lines)
Indented(lines) == JoinLF([i \in 1..Len(lines) |-> RStrip(<<SP, SP>> \o lines[i])])

BlockOf(t) == IF t = <<>> THEN <<QT, QT>> ELSE <<"|", LF>> \o Indented(SplitLines(t))

yml_block(s) == BlockOf(RStrip(s))

----------------------------------------------------------------------------
\* episode_id_from_link: re.search(r"/(\d+)/?$", link); <<>> stands for None

Digits == {"1", "2"}

\* The digits s ends with.
RECURSIVE DigitSuffix(_)
DigitSuffix(s) ==
    IF s # <<>> /\ s[Len(s)] \in Digits
    THEN Append(DigitSuffix(SubSeq(s, 1, Len(s) - 1)), s[Len(s)])
    ELSE <<>>

\* "/(\d+)" ending where s ends: d is the digits s ends with.
SlashBefore(s, d) ==
    IF d # <<>> /\ Len(s) > Len(d) /\ s[Len(s) - Len(d)] = "/" THEN d ELSE <<>>

\* "/(\d+)/?" ending where s ends
IdAtEnd(s) ==
    IF s # <<>> /\ s[Len(s)] = "/"
    THEN SlashBefore(SubSeq(s, 1, Len(s) - 1), DigitSuffix(SubSeq(s, 1, Len(s) - 1)))
    ELSE SlashBefore(s, DigitSuffix(s))

\* "$" matches at the end and before a final line feed.
episode_id_from_link(link) ==
    IF link # <<>> /\ link[Len(link)] = LF
    THEN IdAtEnd(SubSeq(link, 1, Len(link) - 1))
    ELSE IdAtEnd(link)

----------------------------------------------------------------------------
\* build_front_matter.  An item is
\*   [title, pubDate, description, link, guid, enclosure]
\* each child element [present, text] (text <<>> for an element without
\* text); enclosure is [present, url], url <<>> without the attribute.

El(t) == [present |-> TRUE, text |-> t]
NoEl == [present |-> FALSE, text |-> <<>>]

\* elem.text if (elem is not None and elem.text is not None) else ""
text_or(elem) == IF elem.present THEN elem.text ELSE <<>>

PlayerUrl(eid) == <<"https://player.rss.com/lytte">> \o <<"/">> \o eid

\* rss_embed: the iframe, when the link names an episode
RssEmbed(eid, title) ==
    IF eid = <<>> THEN <<>>
    ELSE <<"<iframe", SP, "src=", QT>> \o PlayerUrl(eid) \o <<QT, SP>>
         \o <<"loading=", QT, "lazy", QT, SP>>
         \o <<"style=", QT, "width:100%;height:180px;border:0;overflow:hidden;", QT, SP>>
         \o <<"title=", QT>> \o title \o <<QT, "></iframe>">>

\* enclosure.get("url").strip() if enclosure is not None and enclosure.get("url") else ""
AudioUrl(enclosure) ==
    IF enclosure.present /\ enclosure.url # <<>> THEN Strip(enclosure.url) ELSE <<>>

\* The record build_front_matter returns, from its locals.
FrontMatterOf(item, title, pub_dt, link) ==
    [title |-> title,
     date |-> <<IsoText[pub_dt]>>,
     display_date |-> <<DisplayText[pub_dt]>>,
     description |-> strip_html(text_or(item.description)),
     rss_embed |-> RssEmbed(episode_id_from_link(link), title),
     audio_url |-> AudioUrl(item.enclosure),
     link |-> link,
     draft |-> FALSE]

build_front_matter(item, now) ==
    FrontMatterOf(item,
                  Strip(text_or(item.title)),
                  parse_date_rfc822(item.pubDate, now),
                  Strip(text_or(item.link)))

----------------------------------------------------------------------------
\* render_front_matter

FRONTMATTER_ORDER ==
    <<"title", "date", "display_date", "description", "rss_embed",
      "audio_url", "link", "tags", "draft">>

TagsLine ==
    <<"tags:", SP, "[", QT, "lytteovelser", QT, ",", QT, "podcast", QT, "]">>

FrontMatterLine(fm, key) ==
    IF key = "tags" THEN TagsLine
    ELSE IF key = "description"
         THEN <<"description:", SP>> \o yml_block(fm.description)
    ELSE IF key = "draft"
         THEN <<"draft:", SP, IF fm.draft THEN "true" ELSE "false">>
    ELSE <<key \o ":", SP, QT>> \o yml_escape_inline(fm[key]) \o <<QT>>

render_front_matter(fm) ==
    JoinLF(<<<<DASHES>>>>
           \o [i \in 1..Len(FRONTMATTER_ORDER) |->
                 FrontMatterLine(fm, FRONTMATTER_ORDER[i])]
           \o <<<<DASHES>>>>)
    \o <<LF>>

----------------------------------------------------------------------------
\* standard_body

PlayerShortcode == <<"{{<", SP, MARKER, SP, ">}}">>

NotesSection ==
    <<LF, "## Notater", LF, "- Viktige punkter:", LF,
      SP, SP, "- ...", LF, SP, SP, "- ...">>

\* if fm.get("description"): the heading and the description
DescriptionParts(description) ==
    IF description # <<>> THEN <<<<LF, "## Beskrivelse">>, description>> ELSE <<>>

\* if eid: the line of the shareable player
PlayerParts(eid) ==
    IF eid # <<>> THEN <<<<"- Delbar spiller:", SP>> \o PlayerUrl(eid)>> ELSE <<>>

\* The line of the original episode.
OriginalLine(link) == <<"- Original episode:", SP>> \o link

standard_body(fm) ==
    JoinLF(<<PlayerShortcode>>
           \o DescriptionParts(fm.description)
           \o <<NotesSection>>
           \o <<<<LF, "## Lenker">>>>
           \o <<OriginalLine(fm.link)>>
           \o PlayerParts(episode_id_from_link(fm.link)))
    \o <<LF>>

----------------------------------------------------------------------------
\* normalize_file

\* Where "\r?" leaves the matcher at position i of t.
OptCR(t, i) == IF i <= Len(t) /\ t[i] = CR THEN i + 1 ELSE i

\* "\n---" at i1 and "\n" at i2: the position after them, or 0.
CloseFrom(t, i1, i2) ==
    IF i2 <= Len(t) /\ t[i1] = LF /\ t[i1 + 1] = DASHES /\ t[i2] = LF
    THEN i2 + 1 ELSE 0

\* The position after "\r?\n---\r?\n" matched at position e of t, or 0.
CloseAt(t, e) == CloseFrom(t, OptCR(t, e), OptCR(t, OptCR(t, e) + 2))

\* The position after "^---\r?\n", or 0.
OpenEnd(t) ==
    IF Len(t) >= 1 /\ t[1] = DASHES /\ OptCR(t, 2) <= Len(t) /\ t[OptCR(t, 2)] = LF
    THEN OptCR(t, 2) + 1 ELSE 0

\* re.match(r"^---\r?\n(.*?)\r?\n---\r?\n(.*)$", text, flags=re.DOTALL):
\* the positions where group 1 may end.
FMCloses(t) ==
    IF OpenEnd(t) = 0 THEN {}
    ELSE {e \in OpenEnd(t)..Len(t) : CloseAt(t, e) # 0}

FMMatches(t) == FMCloses(t) # {}

Least(S) == CHOOSE k \in S : \A j \in S : k <= j

\* m.group(2): the lazy group 1 ends at the first position it may.
FMBody(t) == SubSeq(t, CloseAt(t, Least(FMCloses(t))), Len(t))

LegacySeparator ==
    <<LF, DASHES, LF, "<!-- Tidligere innhold bevart under -->", LF>>

\* A slip: the old text is dropped.
FreshWithoutOld(fresh, old) == [content |-> fresh, updated |-> TRUE]

\* No or invalid front matter: fresh content, the old text kept below it.
FreshWithOld(fresh, old) ==
    [content |-> IF old # <<>> THEN fresh \o LegacySeparator \o old \o <<LF>>
                 ELSE fresh,
     updated |-> TRUE]

\* A slip: the body is always replaced.
BackfillAlways(body, fm) == standard_body(fm)

\* if (not body) or ("episodeplayer" not in body): body = standard_body(fm)
BackfillBody(body, fm) ==
    IF body = <<>> \/ ~Contains(body, MARKER) THEN standard_body(fm) ELSE body

\* new = new_fm + body + ("\n" if not body.endswith("\n") else "")
NewText(new_fm, body) ==
    new_fm \o body \o (IF body = <<>> \/ body[Len(body)] # LF THEN <<LF>> ELSE <<>>)

\* if new != text: write and return True; else return False
WriteIfChanged(bytes, text, new) ==
    IF new # text THEN [content |-> new, updated |-> TRUE]
    ELSE [content |-> bytes, updated |-> FALSE]

\* normalize_file once the file is read.
NormalizeText(bytes, text, fm) ==
    IF ~FMMatches(text)
    THEN FreshWithOld(render_front_matter(fm) \o standard_body(fm), Strip(text))
    ELSE WriteIfChanged(bytes, text,
                        NewText(render_front_matter(fm),
                                BackfillBody(Strip(FMBody(text)), fm)))

\* The bytes of the file after the call and the value returned.
normalize_file(bytes, fm) == NormalizeText(bytes, ReadText(bytes), fm)

----------------------------------------------------------------------------
\* write_or_update_episode_file.  The content directory is a function from
\* the slugs whose index.md exists to the bytes of that file.

\* The directory with the file at slug holding r.content.
Written(dir, slug, r) ==
    [dir |-> (slug :> r.content) @@ dir, updated |-> r.updated]

write_or_update_episode_file(dir, fm, slug) ==
    IF slug \in DOMAIN dir
    THEN Written(dir, slug, normalize_file(dir[slug], fm))
    ELSE Written(dir, slug,
                 [content |-> render_front_matter(fm) \o standard_body(fm),
                  updated |-> TRUE])

----------------------------------------------------------------------------
\* The state store.  The state file is
\*   [kind, seenKind, ids, extra]
\* kind: "missing", "garbage" (not JSON), "array" (JSON, not an object) or
\* "object"; seenKind: what the object holds under "seen" ("absent", "null",
\* "list"); ids: the list's identifiers; extra: the object has other keys.

StateFileOf(kind, seenKind, ids, extra) ==
    [kind |-> kind, seenKind |-> seenKind, ids |-> ids, extra |-> extra]

\* load_state(): the parsed document, or {"seen": []}
load_state(sf) ==
    IF sf.kind \in {"missing", "garbage"}
    THEN StateFileOf("object", "list", <<>>, FALSE)
    ELSE sf

\* state.get("seen", []) raises on a document that is not an object, and
\* set(None) raises.
SeenRaises(st) == st.kind # "object" \/ st.seenKind = "null"

\* A slip: the run starts from an empty seen set.
SeenSetEmpty(st) == {}

\* set(state.get("seen", []))
SeenSet(st) ==
    IF st.seenKind = "list" THEN {st.ids[i] : i \in 1..Len(st.ids)} ELSE {}

\* The order of str on the identifiers: by character, shorter first.
Collation == <<LF, SP, "/", "1", "2", "ep", "g1", "g2", "g3", "https://x/lytte">>

Rank(c) == CHOOSE i \in 1..Len(Collation) : Collation[i] = c

RECURSIVE IdLess(_, _)
IdLess(a, b) ==
    IF b = <<>> THEN FALSE
    ELSE IF a = <<>> THEN TRUE
    ELSE IF Head(a) = Head(b) THEN IdLess(Tail(a), Tail(b))
    ELSE Rank(Head(a)) < Rank(Head(b))

Smallest(S) == CHOOSE x \in S : \A y \in S \ {x} : IdLess(x, y)

\* sorted(seen)
RECURSIVE sorted(_)
RECURSIVE SortedFrom(_, _)
SortedFrom(S, m) == <<m>> \o sorted(S \ {m})

sorted(S) == IF S = {} THEN <<>> ELSE SortedFrom(S, Smallest(S))

\* state["seen"] = sorted(seen); save_state(state)
save_state(st, seenSet) == StateFileOf("object", "list", sorted(seenSet), st.extra)

----------------------------------------------------------------------------
\* main: the body of the loop over the channel's items

\* A slip: no fallback to the link.
ItemGuidOnly(item) == text_or(item.guid)

\* guid = text_or(item.find("guid")) or text_or(item.find("link"))
ItemGuid(item) ==
    IF text_or(item.guid) # <<>> THEN text_or(item.guid) ELSE text_or(item.link)

\* slug = f"{fm['date']}-{slugify(fm['title'])}"
ItemSlug(fm) == fm.date \o <<"-">> \o slugify(fm.title)

NoFm ==
    [title |-> <<>>, date |-> <<>>, display_date |-> <<>>, description |-> <<>>,
     rss_embed |-> <<>>, audio_url |-> <<>>, link |-> <<>>, draft |-> FALSE]

\* What the last call of write_or_update_episode_file found and did.
NoCall ==
    [called |-> FALSE, fm |-> NoFm, slug |-> <<>>, existed |-> FALSE,
     before |-> <<>>, updated |-> FALSE]

\* if guid not in seen: seen.add(guid); if updated: changed += 1
Counted(d, sn, ch, guid, fm, slug, w) ==
    [dir |-> w.dir,
     seen |-> sn \cup {guid},
     changed |-> IF w.updated THEN ch + 1 ELSE ch,
     call |-> [called |-> TRUE, fm |-> fm, slug |-> slug,
               existed |-> slug \in DOMAIN d,
               before |-> IF slug \in DOMAIN d THEN d[slug] ELSE <<>>,
               updated |-> w.updated]]

\* updated = write_or_update_episode_file(fm, slug)
WriteItem(d, sn, ch, guid, fm, slug) ==
    Counted(d, sn, ch, guid, fm, slug, write_or_update_episode_file(d, fm, slug))

\* fm = build_front_matter(item) and what follows
ProcessWith(d, sn, ch, guid, fm) == WriteItem(d, sn, ch, guid, fm, ItemSlug(fm))

\* A slip: an item already seen is skipped too.
ItemFromUnseen(d, sn, ch, item, now, guid) ==
    IF guid = <<>> \/ guid \in sn
    THEN [dir |-> d, seen |-> sn, changed |-> ch, call |-> NoCall]
    ELSE ProcessWith(d, sn, ch, guid, build_front_matter(item, now))

\* if not guid: continue
ItemFrom(d, sn, ch, item, now, guid) ==
    IF guid = <<>>
    THEN [dir |-> d, seen |-> sn, changed |-> ch, call |-> NoCall]
    ELSE ProcessWith(d, sn, ch, guid, build_front_matter(item, now))

\* One iteration: the directory, the seen set and the count after it.
ItemStep(d, sn, ch, item, now) == ItemFrom(d, sn, ch, item, now, ItemGuid(item))

----------------------------------------------------------------------------
\* Inputs: the feed items, the feeds, the files found in the content
\* directory and the state files found on disk.

MaxItems == 2

LinkBase == "https://x/lytte"

ItemA ==
    [title |-> El(<<SP, "A", "b", SP, "1">>),
     pubDate |-> [fmt |-> "rfc822", day |-> 1],
     description |-> El(<<"<p>", "a", "</p>", LF, "<p>", "b", "<br>", "&amp;", "</p>">>),
     link |-> El(<<LinkBase, "/", "1", "2">>),
     guid |-> El(<<"g1">>),
     enclosure |-> [present |-> TRUE, url |-> <<SP, "https://x/a.mp3">>]]

\* Same day and same slug as ItemA, another episode.
ItemB ==
    [title |-> El(<<"a", "b", "!", "-", "1">>),
     pubDate |-> [fmt |-> "iso", day |-> 1],
     description |-> NoEl,
     link |-> El(<<LinkBase, "/", "2", "/">>),
     guid |-> El(<<"g2">>),
     enclosure |-> [present |-> FALSE, url |-> <<>>]]

\* No link, an unparseable date.
ItemC ==
    [title |-> El(<<"A-ring", QT, "ae-lig">>),
     pubDate |-> [fmt |-> "garbage", day |-> 1],
     description |-> El(<<"a", SP, SP, LF, LF, "b">>),
     link |-> NoEl,
     guid |-> El(<<"g3">>),
     enclosure |-> [present |-> TRUE, url |-> <<>>]]

\* Neither guid nor link.
ItemD ==
    [title |-> El(<<"b">>),
     pubDate |-> [fmt |-> "rfc822", day |-> 2],
     description |-> El(<<"b">>),
     link |-> El(<<>>),
     guid |-> NoEl,
     enclosure |-> [present |-> FALSE, url |-> <<>>]]

\* No guid, a link without an episode number, no title.
ItemE ==
    [title |-> NoEl,
     pubDate |-> [fmt |-> "iso", day |-> 2],
     description |-> El(<<>>),
     link |-> El(<<SP, LinkBase, "/", "ep", LF>>),
     guid |-> El(<<>>),
     enclosure |-> [present |-> FALSE, url |-> <<>>]]

ItemPool == <<ItemA, ItemB, ItemC, ItemD, ItemE>>

\* The items at the positions P of the pool, in the pool's order.
RECURSIVE PickItems(_)
PickItems(P) ==
    IF P = {} THEN <<>>
    ELSE LET m == CHOOSE i \in P : \A j \in P : i <= j
         IN  <<ItemPool[m]>> \o PickItems(P \ {m})

ItemSeqs ==
    {PickItems(P) : P \in {Q \in SUBSET (1..Len(ItemPool)) : Cardinality(Q) <= MaxItems}}

\* A feed document: channel says whether the root has a channel node, items
\* are the item elements of the document (under the channel when it has one).
Feeds == {[channel |-> c, items |-> it] : c \in BOOLEAN, it \in ItemSeqs}

\* Files found in the content directory before the first run.
LegacyFiles ==
    { <<>>,
      <<LF, SP>>,
      <<SP, "old text", LF, LF>>,
      <<DASHES, LF, "title: x", LF, DASHES>>,
      <<DASHES, LF, "custom: 1", LF, DASHES, LF, LF>>
          \o PlayerShortcode \o <<LF, "my notes", LF, LF>>,
      <<DASHES, CR, LF, "custom: 1", CR, LF, DASHES, CR, LF>>
          \o PlayerShortcode \o <<CR, LF, "my notes">>,
      <<DASHES, LF, "custom: 1", LF, DASHES, LF, "hand written", LF>>,
      <<"draft", SP, MARKER, LF>> }

SlugsOf(f) ==
    {ItemSlug(build_front_matter(f.items[i], now)) :
        i \in 1..Len(f.items), now \in Days}

EmptyDir == [s \in {} |-> <<>>]

\* Content directories before the first run: empty, or one file where an
\* item of the feed will be written.
DirsFor(f) == {EmptyDir} \cup {s :> c : s \in SlugsOf(f), c \in LegacyFiles}

NoStateFile == StateFileOf("missing", "absent", <<>>, FALSE)

StateFiles ==
    { NoStateFile,
      StateFileOf("garbage", "absent", <<>>, FALSE),
      StateFileOf("array", "absent", <<>>, FALSE),
      StateFileOf("object", "absent", <<>>, TRUE),
      StateFileOf("object", "null", <<>>, FALSE),
      StateFileOf("object", "list", <<>>, FALSE),
      StateFileOf("object", "list", <<<<"g2">>, <<"g1">>, <<"g2">>, <<"/", "ep">>>>, FALSE) }

----------------------------------------------------------------------------
\* The runs of main

VARIABLES
    feed,       \* the document the feed URL serves
    dir,        \* the content directory
    stateFile,  \* the state file
    pc,         \* where the process is
    cause,      \* why it aborted
    exitCode,
    state,      \* main's state
    seen,       \* main's seen
    idx,        \* the item the loop is at
    changed,    \* main's changed
    dir0,       \* the content directory when the run started
    stateFile0, \* the state file when the run started
    nows,       \* the clock readings of the run, one per item
    last        \* the last call of write_or_update_episode_file

vars ==
    <<feed, dir, stateFile, pc, cause, exitCode, state, seen, idx, changed,
      dir0, stateFile0, nows, last>>

Stopped == {"idle", "done", "aborted", "crashed"}

\* Before the first run: a content directory with a file left by hand and
\* no state file, or an empty content directory and any state file.
Init ==
    /\ feed \in Feeds
    /\ \/ dir \in DirsFor(feed) /\ stateFile = NoStateFile
       \/ dir = EmptyDir /\ stateFile \in StateFiles
    /\ pc = "idle"
    /\ cause = "none"
    /\ exitCode = 0
    /\ state = load_state(NoStateFile)
    /\ seen = {}
    /\ idx = 0
    /\ changed = 0
    /\ dir0 = dir
    /\ stateFile0 = stateFile
    /\ nows = <<>>
    /\ last = NoCall

\* A run starts: ensure_dirs(); state = load_state(); seen = set(...)
LoadState ==
    /\ pc \in Stopped
    /\ dir0' = dir
    /\ stateFile0' = stateFile
    /\ nows' = <<>>
    /\ last' = NoCall
    /\ idx' = 0
    /\ changed' = 0
    /\ IF SeenRaises(load_state(stateFile))
       THEN /\ pc' = "aborted"
            /\ cause' = "state"
            /\ exitCode' = 1
            /\ UNCHANGED <<state, seen>>
       ELSE /\ pc' = "loaded"
            /\ cause' = "none"
            /\ exitCode' = 0
            /\ state' = load_state(stateFile)
            /\ seen' = SeenSet(load_state(stateFile))
    /\ UNCHANGED <<feed, dir, stateFile>>

\* A slip: no check of the channel.
HasChannelAlways(f) == TRUE

\* channel = root.find("channel"): None for a document without one
HasChannel(f) == f.channel

\* xml_bytes = fetch_feed_xml(FEED_URL); root = ET.fromstring(xml_bytes);
\* the check of the channel
FetchParse ==
    /\ pc = "loaded"
    /\ IF HasChannel(feed)
       THEN /\ pc' = "loop"
            /\ idx' = 1
            /\ UNCHANGED <<cause, exitCode>>
       ELSE /\ pc' = "aborted"
            /\ cause' = "channel"
            /\ exitCode' = 1
            /\ UNCHANGED idx
    /\ UNCHANGED <<feed, dir, stateFile, state, seen, changed, dir0, stateFile0,
                   nows, last>>

\* urlopen or ET.fromstring raises
FetchFails ==
    /\ pc = "loaded"
    /\ pc' = "aborted"
    /\ cause' = "fetch"
    /\ exitCode' = 1
    /\ UNCHANGED <<feed, dir, stateFile, state, seen, idx, changed, dir0,
                   stateFile0, nows, last>>

\* The clock readings an iteration may make: datetime.now() is called only
\* for a processed item whose pubDate neither parser accepts (0: not read).
ClockReadings(item) ==
    IF ItemGuid(item) # <<>> /\ item.pubDate.fmt \notin {"rfc822", "iso"}
    THEN Days ELSE {0}

\* The loop's variables after an iteration that gave r.
Iterated(r) ==
    /\ dir' = r.dir
    /\ seen' = r.seen
    /\ changed' = r.changed
    /\ last' = r.call

\* One iteration of the loop
ProcessItem ==
    /\ pc = "loop"
    /\ idx <= Len(feed.items)
    /\ \E now \in ClockReadings(feed.items[idx]) :
         /\ Iterated(ItemStep(dir, seen, changed, feed.items[idx], now))
         /\ nows' = Append(nows, now)
    /\ idx' = idx + 1
    /\ UNCHANGED <<feed, stateFile, pc, cause, exitCode, state, dir0, stateFile0>>

\* After the loop: state["seen"] = sorted(seen); save_state(state); print
Finish ==
    /\ pc = "loop"
    /\ idx > Len(feed.items)
    /\ stateFile' = save_state(state, seen)
    /\ pc' = "done"
    /\ exitCode' = 0
    /\ UNCHANGED <<feed, dir, cause, state, seen, idx, changed, dir0,
                   stateFile0, nows, last>>

\* The process is killed between two steps
Crash ==
    /\ pc = "loop"
    /\ pc' = "crashed"
    /\ cause' = "killed"
    /\ exitCode' = 1
    /\ UNCHANGED <<feed, dir, stateFile, state, seen, idx, changed, dir0,
                   stateFile0, nows, last>>

Next ==
    \/ LoadState
    \/ FetchParse
    \/ FetchFails
    \/ ProcessItem
    \/ Finish
    \/ Crash

Spec == Init /\ [][Next]_vars

\* WF_vars(ProcessItem) with its ENABLED written out: the loop is not left
\* waiting at an item for ever.
LoopGoesOn ==
    \/ []<>(~(pc = "loop" /\ idx <= Len(feed.items)))
    \/ []<><<ProcessItem>>_vars

\* Runs are started again and again, and a started run goes on.
FairSpec ==
    /\ Spec
    /\ WF_vars(LoadState)
    /\ WF_vars(FetchParse)
    /\ WF_vars(Finish)
    /\ LoopGoesOn

----------------------------------------------------------------------------
\* What the properties speak of

Items == feed.items

\* The identifiers a state file lists.
ListedIds(sf) ==
    IF sf.kind = "object" /\ sf.seenKind = "list"
    THEN {sf.ids[i] : i \in 1..Len(sf.ids)} ELSE {}

\* The seen set the run loaded.
seen0 == ListedIds(stateFile0)

\* The identifier of an item: its guid, or else its link.
IdentifierOf(item) ==
    IF item.guid.present /\ item.guid.text # <<>> THEN item.guid.text
    ELSE IF item.link.present THEN item.link.text
    ELSE <<>>

\* The item lacks both guid and link.
LacksBoth(item) ==
    /\ ~item.guid.present \/ item.guid.text = <<>>
    /\ ~item.link.present \/ item.link.text = <<>>

\* The record and the slug the run built for item i.
FmAt(i) == build_front_matter(Items[i], nows[i])
SlugAt(i) == ItemSlug(FmAt(i))

IsPrefix(a, b) == Len(a) <= Len(b) /\ SubSeq(b, 1, Len(a)) = a

\* The loop run over its from the directory d, the seen set sn and the clock
\* readings ns: the directory and the count after it, and which items were
\* processed.
RECURSIVE RunItems(_, _, _, _, _, _)
RunNext(r, its, ns, done) ==
    RunItems(r.dir, r.seen, r.changed, Tail(its), Tail(ns),
             Append(done, r.call.called))

RunItems(d, sn, ch, its, ns, done) ==
    IF its = <<>> THEN [dir |-> d, changed |-> ch, processed |-> done]
    ELSE RunNext(ItemStep(d, sn, ch, Head(its), Head(ns)), its, ns, done)

\* The run that ended, had it loaded the seen set sn.
RunWith(sn) == RunItems(dir0, sn, 0, Items, nows, <<>>)

PoolGuids == {IdentifierOf(ItemPool[i]) : i \in 1..Len(ItemPool)} \ {<<>>}

\* Seen sets a state file may hold: none, one or all of the identifiers.
SeenVariants == {{}, PoolGuids} \cup {{g} : g \in PoolGuids}

----------------------------------------------------------------------------
\* C1: Calling the writer again with the same record, right after it created
\* the file, leaves the file as it is and returns False.
SecondCallUnchanged(w) == w.dir = dir /\ ~w.updated

RerunAfterCreateIsNoOp ==
    (last.called /\ ~last.existed) =>
        SecondCallUnchanged(write_or_update_episode_file(dir, last.fm, last.slug))

\* C2: With the feed fixed, repeated runs reach a point from which every
\* completed run leaves the content directory as it found it and reports 0
\* changed files.
RunsConverge ==
    <>[](pc \notin {"crashed", "aborted"})
        => <>[](pc = "done" => (changed = 0 /\ dir = dir0))

\* C3 as stated: a file with parseable front matter becomes the regenerated
\* front matter followed by its old body verbatim when that body holds the
\* player marker, and by the template otherwise.
BodyOfLast == FMBody(ReadText(last.before))

HadFrontMatter == last.called /\ last.existed /\ FMMatches(ReadText(last.before))

BodyKeptVerbatim ==
    HadFrontMatter =>
        dir[last.slug] =
            render_front_matter(last.fm)
            \o (IF Contains(BodyOfLast, MARKER) THEN BodyOfLast
                ELSE standard_body(last.fm))

\* C3 as amended: the old body is kept stripped of the white space around it
\* and ended by one line feed, and a file that already reads as the result is
\* not written.
ExpectedRebuilt(body) ==
    render_front_matter(last.fm)
    \o (IF Contains(body, MARKER) THEN Strip(body) \o <<LF>>
        ELSE standard_body(last.fm))

RebuiltAs(new) ==
    IF new = ReadText(last.before)
    THEN dir[last.slug] = last.before /\ ~last.updated
    ELSE dir[last.slug] = new /\ last.updated

BodyKeptStripped == HadFrontMatter => RebuiltAs(ExpectedRebuilt(BodyOfLast))

BodyKeptStrippedWitness ==
    /\ HadFrontMatter
    /\ Contains(BodyOfLast, MARKER)
    /\ Strip(BodyOfLast) \o <<LF>> # BodyOfLast
    /\ ~IsPrefix(render_front_matter(last.fm), ReadText(last.before))
    /\ last.updated

\* C4 as stated: a file without parseable front matter, holding the text B,
\* becomes front matter, template and B verbatim, and the call reports changed.
HadNoFrontMatter == last.called /\ last.existed /\ ~FMMatches(ReadText(last.before))

LegacyKeptVerbatim ==
    HadNoFrontMatter =>
        /\ last.updated
        /\ dir[last.slug] =
               render_front_matter(last.fm) \o standard_body(last.fm) \o last.before

\* C4 as amended: B is kept stripped, below a separator, when it is not blank.
LegacyTail(old) ==
    IF old = <<>> THEN <<>> ELSE LegacySeparator \o old \o <<LF>>

LegacyKeptStripped ==
    HadNoFrontMatter =>
        /\ last.updated
        /\ FMMatches(dir[last.slug])
        /\ dir[last.slug] =
               render_front_matter(last.fm) \o standard_body(last.fm)
               \o LegacyTail(Strip(ReadText(last.before)))

LegacyKeptStrippedWitness ==
    /\ HadNoFrontMatter
    /\ Strip(ReadText(last.before)) # <<>>
    /\ Strip(ReadText(last.before)) # last.before

\* C5: A completed run, had it loaded any other seen set, would have processed
\* the same items, left the same content directory and counted the same.
ActualOutcome ==
    [dir |-> dir, changed |-> changed,
     processed |-> [i \in 1..Len(Items) |-> ~LacksBoth(Items[i])]]

SeenIsAdvisory ==
    pc = "done" =>
        {RunWith(sn) : sn \in SeenVariants \cup {seen0}} = {ActualOutcome}

SeenIsAdvisoryWitness ==
    /\ pc = "done"
    /\ changed > 0
    /\ \E i \in 1..Len(Items) : ~LacksBoth(Items[i]) /\ IdentifierOf(Items[i]) \in seen0
    /\ \E i \in 1..Len(Items) : ~LacksBoth(Items[i]) /\ IdentifierOf(Items[i]) \notin seen0

\* C6: The state file a completed run leaves lists, sorted and without
\* duplicates, every identifier listed before the run and the identifier of
\* every item processed; no run removes a listed identifier.
StrictlySorted(ids) == \A i \in 1..(Len(ids) - 1) : IdLess(ids[i], ids[i + 1])

ProcessedGuids == {IdentifierOf(Items[i]) : i \in 1..Len(Items)} \ {<<>>}

SeenIsAppendOnly ==
    /\ seen0 \subseteq ListedIds(stateFile)
    /\ pc = "done" =>
          /\ stateFile.kind = "object" /\ stateFile.seenKind = "list"
          /\ StrictlySorted(stateFile.ids)
          /\ ProcessedGuids \subseteq ListedIds(stateFile)
    /\ pc # "done" => stateFile = stateFile0

SeenIsAppendOnlyWitness ==
    /\ pc = "done"
    /\ seen0 \ ProcessedGuids # {}
    /\ ProcessedGuids \ seen0 # {}
    /\ ProcessedGuids \cap seen0 # {}

\* C7: After a completed run, two processed items of the feed have different
\* files, and the file of each carries the front matter of that item.
Processed(i) == ~LacksBoth(Items[i])

OneFilePerItem ==
    pc = "done" =>
        \A i \in 1..Len(Items) : Processed(i) =>
            /\ SlugAt(i) \in DOMAIN dir
            /\ IsPrefix(render_front_matter(FmAt(i)), dir[SlugAt(i)])
            /\ \A j \in 1..Len(Items) : (Processed(j) /\ j # i) => SlugAt(j) # SlugAt(i)

\* C8: A run whose state file is missing, is not parseable or lacks the
\* "seen" list does not abort on loading it: it goes on with an empty seen set.
LacksSeenField(sf) ==
    sf.kind \in {"missing", "garbage", "array"} \/ sf.seenKind = "absent"

LoadNeverAborts ==
    (pc # "idle" /\ LacksSeenField(stateFile0)) =>
        /\ ~(pc = "aborted" /\ cause = "state")
        /\ pc = "loaded" => seen = {}

\* C9: With a feed that has no channel node no run gets to the items: it
\* aborts with a non-zero exit code, and the content directory and the state
\* file stay as they were.
NoChannelAborts ==
    ~feed.channel =>
        /\ pc \notin {"loop", "done"}
        /\ pc = "aborted" => exitCode # 0
        /\ dir = dir0
        /\ stateFile = stateFile0
        /\ ~last.called
        /\ changed = 0

NoChannelAbortsWitness ==
    /\ ~feed.channel
    /\ pc = "aborted"
    /\ cause = "channel"
    /\ \E i \in 1..Len(Items) : ~LacksBoth(Items[i])

\* C10: The iteration of an item that lacks both guid and link changes
\* neither the content directory nor the seen set nor the count and goes on
\* to the next item; after a completed run every other item is in the seen
\* set and has its content file.
SkipChangesNothing ==
    (pc = "loop" /\ idx <= Len(Items) /\ idx' = idx + 1 /\ LacksBoth(Items[idx])) =>
        (dir' = dir /\ seen' = seen /\ changed' = changed /\ pc' = "loop")

OthersHaveFiles ==
    pc = "done" =>
        \A i \in 1..Len(Items) : ~LacksBoth(Items[i]) =>
            /\ IdentifierOf(Items[i]) \in seen
            /\ SlugAt(i) \in DOMAIN dir
            /\ FMMatches(dir[SlugAt(i)])

OnlyItemsLackingBothAreSkipped == [][SkipChangesNothing]_vars /\ []OthersHaveFiles

OnlyItemsLackingBothAreSkippedWitness ==
    /\ pc = "done"
    /\ \E i \in 1..Len(Items) : LacksBoth(Items[i])
    /\ \E i \in 1..Len(Items) :
          /\ ~LacksBoth(Items[i])
          /\ ~Items[i].guid.present \/ ~Items[i].link.present
          /\ SlugAt(i) \in DOMAIN dir

====
